---- MODULE Spec2Model ----
(***************************************************************************)
(* Model of examples/vision/ipynb/metric_learning_tf_similarity.ipynb.     *)
(*                                                                         *)
(* The notebook is a straight-line program: twelve code cells, each a      *)
(* sequence of library calls executed by one kernel.  The state is the     *)
(* kernel's position (pc, iter, phase) and its namespace (class_list,      *)
(* train_ds, val_ds, model, the slices, calibration, nns, matches).  A     *)
(* library call is issued (Issue), and then either returns (one action per *)
(* library operation, applying its documented effect on the namespace) or  *)
(* raises (Raise), which ends the run because no cell has a try/except.    *)
(*                                                                         *)
(* The called library is not part of the repository.  Its operations are   *)
(* modelled by the contract the notebook's own markdown cells state for    *)
(* them, with the arguments the code cells pass.  What the library leaves  *)
(* open (shuffle order, sampled batch, learned embedding, calibrated       *)
(* threshold) is a nondeterministic choice from a bounded family.          *)
(***************************************************************************)
EXTENDS Integers, Sequences, FiniteSets, TLC

VARIABLES pc, iter, phase, runEnd, reruns, issued, returned,
          class_list, batch_size_printed, train_ds, val_ds, model,
          x_slice, x_index, y_index, x_train, calibration,
          x_display, y_display, nns, order, vizzed,
          x_confusion, y_confusion, matches, idx_no_match, shown, vx,
          fitSteps, batch, valBatch

vars == <<pc, iter, phase, runEnd, reruns, issued, returned,
          class_list, batch_size_printed, train_ds, val_ds, model,
          x_slice, x_index, y_index, x_train, calibration,
          x_display, y_display, nns, order, vizzed,
          x_confusion, y_confusion, matches, idx_no_match, shown, vx,
          fitSteps, batch, valBatch>>

----------------------------------------------------------------------------
(* Bounds of the model. *)

\* random.sample outcomes considered: rotations 0..MaxSampleSeed of range(10)
MaxSampleSeed == 1
\* shuffle orders of a sampler's in-memory dataset considered
MaxShuffleSeed == 1
\* batches drawn per sampler during fit (instead of 3 x 4000 and 50)
MaxFitSteps == 2
\* sampled batches considered per step
MaxBatchSeed == 1
\* learned embeddings considered
MaxWeights == 2
\* calibrated distance thresholds considered: ThresholdStep * (0..MaxThreshold)
MaxThreshold == 2
ThresholdStep == 8
\* re-executions of the indexing cell in an interactive session
MaxReruns == 1

----------------------------------------------------------------------------
(* Literal configuration of the notebook. *)

num_known_classes == 10
classes_per_batch == 10
examples_per_class_per_batch == 8
total_examples_per_class == 100
DefaultExamplesPerClassPerBatch == 2
IndexSize == 200
CalibrationSize == 1000
num_cols == 5
num_rows == 5
PreviewSize == num_cols * num_rows
DisplayBegin == 200
DisplaySize == 10
num_neighbors == 5
\* NoMatchLabel taken from the labels of the dataset
NoMatchLabelInRange == 10 - 1
NoMatchLabel == 10
num_examples_to_clusters == 1000

\* CIFAR-10: ten classes, 5000 train and 1000 test images per class
NumCifarClasses == 10
TrainPerClass == 5000
TestPerClass == 1000

Min(a, b) == IF a < b THEN a ELSE b

Range(s) == {s[i] : i \in 1..Len(s)}

----------------------------------------------------------------------------
(* The program: the library calls of the code cells, in source order.      *)
(* The last call of a for loop's body has body = the number of calls of    *)
(* the body; the number of iterations is LoopCount below.                  *)

S(c, l, o) == [cell |-> c, line |-> l, op |-> o, body |-> 0]

L(c, l, o, b) == [cell |-> c, line |-> l, op |-> o, body |-> b]

\* ## Setup
SetupCell == << S(1, 80, "tf_cap_memory") >>

\* ## Dataset samplers
SamplersCell ==
  << S(2, 136, "random_sample"),
     S(2, 155, "train_sampler"),
     S(2, 165, "val_sampler") >>

\* ## Visualize the dataset
PreviewCell ==
  << S(3, 202, "get_slice"),
     S(3, 204, "figure"),
     S(3, 205, "image_grid"),
     S(3, 208, "preview_imshow"),
     L(3, 209, "preview_axis", 2) >>

\* ## Embedding model
ModelCell ==
  << S(4, 246, "layer"), S(4, 247, "layer"), S(4, 248, "layer"),
     S(4, 249, "layer"), S(4, 250, "layer"), S(4, 251, "layer"),
     S(4, 252, "layer"), S(4, 253, "layer"), S(4, 254, "layer"),
     S(4, 255, "layer"), S(4, 256, "layer"), S(4, 257, "layer"),
     S(4, 260, "similarity_model"),
     S(4, 261, "summary") >>

\* ## Similarity loss
TrainingCell ==
  << S(5, 294, "loss"),
     S(5, 298, "optimizer"),
     S(5, 297, "compile"),
     S(5, 300, "fit") >>

\* ## Indexing
IndexingCell ==
  << S(6, 329, "get_slice"),
     S(6, 330, "reset_index"),
     S(6, 331, "index") >>

\* ## Calibration
CalibrationCell ==
  << S(7, 372, "get_slice"),
     S(7, 373, "calibrate") >>

\* ## Visualization
NeighborsCell ==
  << S(8, 431, "get_slice"),
     S(8, 433, "lookup"),
     S(8, 436, "argsort"),
     L(8, 437, "viz_neigbors_imgs", 1) >>

\* ## Metrics
MetricsCell ==
  << S(9, 471, "plot"), S(9, 474, "plot"), S(9, 475, "plot"),
     S(9, 476, "plot"), S(9, 477, "plot"), S(9, 478, "plot"),
     S(9, 479, "plot"), S(9, 480, "plot"), S(9, 482, "plot"),
     S(9, 483, "plot"), S(9, 484, "plot"), S(9, 485, "plot"),
     S(9, 486, "plot"), S(9, 487, "plot") >>

ConfusionCell ==
  << S(10, 518, "get_slice"),
     S(10, 520, "match"),
     S(10, 521, "confusion_matrix") >>

\* ## No Match
NoMatchCell ==
  << S(11, 553, "where"),
     S(11, 556, "no_match_imshow") >>

\* ## Visualize clusters
ClustersCell == << S(12, 589, "get_slice") >>

\* Program with the calibration cell placed above the indexing cell
ProgramCalibrationFirst ==
  SetupCell \o SamplersCell \o PreviewCell \o ModelCell \o TrainingCell
    \o CalibrationCell \o IndexingCell \o NeighborsCell \o MetricsCell
    \o ConfusionCell \o NoMatchCell \o ClustersCell

\* the notebook: its code cells from top to bottom
Program ==
  SetupCell \o SamplersCell \o PreviewCell \o ModelCell \o TrainingCell
    \o IndexingCell \o CalibrationCell \o NeighborsCell \o MetricsCell
    \o ConfusionCell \o NoMatchCell \o ClustersCell

NumSites == Len(Program)

Sites == 1..NumSites

SitesOfCell(c) == {s \in Sites : Program[s].cell = c}

FirstSite(c) == CHOOSE s \in SitesOfCell(c) : \A t \in SitesOfCell(c) : s <= t

LastSite(c) == CHOOSE s \in SitesOfCell(c) : \A t \in SitesOfCell(c) : t <= s

\* the unique call site of an operation that is called from one place
SiteOf(o) == CHOOSE s \in Sites : Program[s].op = o

\* operations whose return changes nothing in the kernel's namespace that a
\* later cell reads (layers, loss and optimizer objects, plotting)
PlainOps == {"tf_cap_memory", "figure", "image_grid", "preview_imshow",
             "preview_axis", "layer", "summary", "loss", "optimizer",
             "plot", "confusion_matrix"}

----------------------------------------------------------------------------
(* Samplers: an in-memory, shuffled, class-balanced dataset.               *)

Undefined == [defined |-> FALSE]

PerClassInSplit(split) == IF split = "train" THEN TrainPerClass ELSE TestPerClass

AllClasses == [i \in 1..NumCifarClasses |-> i - 1]

\* random.sample(population=range(10), k): k distinct classes, in an order
\* that depends on the draw
Sample(population, k, seed) ==
  [i \in 1..k |-> population[((i - 1 + seed) % Len(population)) + 1]]

\* TFDatasetMultiShotMemorySampler("cifar10", ...): keyword arguments that
\* are not passed (0 here) take the library's defaults
Sampler(split, cpb, epc, cl, total, seed) ==
  [defined |-> TRUE,
   split |-> split,
   classes_per_batch |-> cpb,
   examples_per_class_per_batch |->
       IF epc = 0 THEN DefaultExamplesPerClassPerBatch ELSE epc,
   class_list |-> IF cl = <<>> THEN AllClasses ELSE cl,
   per_class |-> IF total = 0 THEN PerClassInSplit(split)
                 ELSE Min(total, PerClassInSplit(split)),
   seed |-> seed]

DsSize(ds) == Len(ds.class_list) * ds.per_class

\* label and image held at position i (0-based) of the shuffled dataset;
\* every run of Len(class_list) positions holds each class once
LabelAt(ds, i) ==
  LET n == Len(ds.class_list)
  IN ds.class_list[((i + ds.seed * (i \div n)) % n) + 1]

ImageAt(ds, i) ==
  LabelAt(ds, i) * PerClassInSplit(ds.split) + (i \div Len(ds.class_list))

SliceLen(ds, begin, size) ==
  IF size = -1 \/ begin + size > DsSize(ds)
  THEN (IF begin > DsSize(ds) THEN 0 ELSE DsSize(ds) - begin)
  ELSE size

\* sampler.get_slice(begin, size): a block of consecutive examples, held
\* as the sampler, the side ("x" images, "y" labels), the first position
\* and the length
GetSlice(ds, side, begin, size) ==
  [ds |-> ds, side |-> side, begin |-> begin, len |-> SliceLen(ds, begin, size)]

NoSlice == [ds |-> Undefined, side |-> "x", begin |-> 0, len |-> 0]

\* element j (1-based) of a slice
Elem(sl, j) ==
  IF sl.side = "x" THEN ImageAt(sl.ds, sl.begin + j - 1)
  ELSE LabelAt(sl.ds, sl.begin + j - 1)

\* the slice as the array the library receives
Array(sl) == [j \in 1..sl.len |-> Elem(sl, j)]

\* sampler.generate_batch: classes_per_batch different classes of
\* class_list, examples_per_class_per_batch examples of each, shuffled
GenerateBatch(ds, seed) ==
  LET cpb == ds.classes_per_batch
      epc == ds.examples_per_class_per_batch
      chosen == Sample(ds.class_list, cpb, seed)
  IN [j \in 1..(cpb * epc) |->
        LET c == chosen[((j - 1) % cpb) + 1]
            k == (seed + 7 * ((j - 1) \div cpb)) % ds.per_class
        IN <<c, c * PerClassInSplit(ds.split) + k>>]

----------------------------------------------------------------------------
(* The similarity model: embedding network, index, calibrated cutpoints.   *)

\* distance between two classes' centres in the (discretised) embedding
\* space, and the spread of one class around its centre
ClassGap == 50

\* the network maps an image to a point; which point depends on the weights
Embed(w, img) ==
  ((img \div TestPerClass) * ClassGap) + (((img % TestPerClass) * w) % ClassGap)

Distance(a, b) == IF a < b THEN b - a ELSE a - b

\* tfsim.models.SimilarityModel(inputs, outputs): a model with an empty
\* index and no cutpoints
NewModel(w) ==
  [defined |-> TRUE, compiled |-> FALSE, trained |-> FALSE, weights |-> w,
   index |-> <<>>, cutpoints |-> <<>>]

\* model.reset_index()
ResetIndexOf(m) == [m EXCEPT !.index = <<>>]

\* model.index(x, y, data): the x values are embedded and then added to the
\* index, each with its label and data
IndexInto(m, x, y, data) ==
  [m EXCEPT !.index =
     @ \o [i \in 1..Len(x) |->
             [emb |-> Embed(m.weights, x[i]), label |-> y[i], data |-> data[i]]]]

\* of two positions of idx (0: none) the one whose entry is nearer to point
\* e; the earlier entry wins a tie
Nearer(idx, e, a, b) ==
  IF a = 0 THEN b
  ELSE IF b = 0 THEN a
  ELSE IF Distance(idx[b].emb, e) < Distance(idx[a].emb, e) THEN b
  ELSE a

\* position in idx[lo..hi] of the entry nearest to point e among those not
\* in skip (0 if there is none)
RECURSIVE ArgNearest(_, _, _, _, _)
ArgNearest(idx, e, skip, lo, hi) ==
  IF lo > hi THEN 0
  ELSE IF lo = hi THEN (IF lo \in skip THEN 0 ELSE lo)
  ELSE LET mid == (lo + hi) \div 2
       IN Nearer(idx, e, ArgNearest(idx, e, skip, lo, mid),
                 ArgNearest(idx, e, skip, mid + 1, hi))

Neighbor(idx, e, i) ==
  [label |-> idx[i].label, distance |-> Distance(idx[i].emb, e),
   data |-> idx[i].data, rank |-> i]

\* the k nearest entries of the index, nearest first
RECURSIVE KNearest(_, _, _, _)
KNearest(idx, e, k, skip) ==
  LET i == ArgNearest(idx, e, skip, 1, Len(idx))
  IN IF k = 0 \/ i = 0 THEN <<>>
     ELSE <<Neighbor(idx, e, i)>> \o KNearest(idx, e, k - 1, skip \cup {i})

\* model.lookup(x, k)
Lookup(m, x, k) ==
  [q \in 1..Len(x) |-> KNearest(m.index, Embed(m.weights, x[q]), k, {})]

\* number of points of the embedding space
EmbSpace == NumCifarClasses * ClassGap

\* for every point of the embedding space that holds an entry of
\* idx[lo..hi], the position of the earliest entry embedded there
RECURSIVE Occupancy(_, _, _)
Occupancy(idx, lo, hi) ==
  IF lo > hi THEN <<>>
  ELSE IF lo = hi THEN (idx[lo].emb :> lo)
  ELSE LET mid == (lo + hi) \div 2
       IN Occupancy(idx, lo, mid) @@ Occupancy(idx, mid + 1, hi)

\* the entries at distance d of point e: 0, one or two positions
AtDistance(occ, e, d) ==
  {occ[p] : p \in {e - d, e + d} \cap DOMAIN occ}

\* position of the entry nearest to point e (0 if the index is empty); the
\* earliest entry wins a tie
NearestAt(occ, e) ==
  IF DOMAIN occ = {} THEN 0
  ELSE LET d == CHOOSE k \in 0..EmbSpace :
                  /\ AtDistance(occ, e, k) # {}
                  /\ \A l \in 0..(k - 1) : AtDistance(occ, e, l) = {}
           hits == AtDistance(occ, e, d)
       IN CHOOSE i \in hits : \A j \in hits : i <= j

\* the K=1 lookup of every query: <<label, distance>> of its nearest
\* indexed example (<<-1, -1>> if the index is empty)
Nearest(m, x) ==
  LET occ == Occupancy(m.index, 1, Len(m.index))
  IN [q \in 1..Len(x) |->
        LET e == Embed(m.weights, x[q])
            i == NearestAt(occ, e)
        IN IF i = 0 THEN <<-1, -1>>
           ELSE <<m.index[i].label, Distance(m.index[i].emb, e)>>]

\* model.match(x, cutpoint, no_match_label) with the K=1 matcher
\* "match_nearest": the label of the nearest indexed example when its
\* distance is at or below the cutpoint's threshold, else no_match_label
Match(m, x, cutpoint, no_match_label) ==
  LET nn == Nearest(m, x)
  IN [q \in 1..Len(x) |->
        LET nearest == nn[q]
        IN IF nearest[2] >= 0 /\ nearest[2] <= m.cutpoints[cutpoint]
           THEN nearest[1]
           ELSE no_match_label]

\* np.argsort(y): the positions of y in ascending order of value (0-based
\* in the notebook, 1-based here)
RECURSIVE Argsort(_, _)
Argsort(y, done) ==
  IF Cardinality(done) = Len(y) THEN <<>>
  ELSE LET rest == (1..Len(y)) \ done
           i == CHOOSE a \in rest :
                  \A b \in rest : y[a] < y[b] \/ (y[a] = y[b] /\ a <= b)
       IN <<i>> \o Argsort(y, done \cup {i})

\* np.where(np.array(matches) == 10): the positions that hold v
Where(m, v) == {i \in 1..Len(m) : m[i] = v}

\* no_match_queries[0]: the query at the first of these positions
First(positions) == CHOOSE i \in positions : \A j \in positions : i <= j

----------------------------------------------------------------------------
(* The kernel: one call at a time, in source order.                        *)

\* the cell under "## Indexing"
IndexCell == 6

Count(f, id) == IF id \in DOMAIN f THEN f[id] ELSE 0

Bump(f, id) == (id :> (Count(f, id) + 1)) @@ f

\* iterations of the loop a call site belongs to (1 outside loops):
\* zip(grid, x_slice, y_slice) stops at the shorter of its arguments
LoopCount(s) ==
  CASE Program[s].op \in {"preview_imshow", "preview_axis"} ->
         Min(PreviewSize, x_slice.len)
    [] Program[s].op = "viz_neigbors_imgs" -> Len(order)
    [] OTHER -> 1

\* first call of the body of the loop whose body ends with call u
BodyStart(u) == u - Program[u].body + 1

IsLoopStart(t) ==
  \E u \in Sites : Program[u].body # 0 /\ BodyStart(u) = t

LoopEnd(t) ==
  CHOOSE u \in Sites : Program[u].body # 0 /\ BodyStart(u) = t

InLoopBody(s) ==
  \E u \in Sites : Program[u].body # 0 /\ BodyStart(u) <= s /\ s <= u

\* control reaches site t: a loop with nothing to iterate over is skipped
Enter(t) ==
  IF t \in Sites /\ IsLoopStart(t) /\ LoopCount(t) = 0
  THEN <<LoopEnd(t) + 1, 1>>
  ELSE <<t, 1>>

\* <<site, iteration>> of the call that follows call s of iteration it
Successor(s, it) ==
  IF Program[s].body # 0
  THEN (IF it < LoopCount(s) THEN <<BodyStart(s), it + 1>> ELSE Enter(s + 1))
  ELSE IF InLoopBody(s) THEN <<s + 1, it>>
  ELSE Enter(s + 1)

\* the call in flight is the operation o
At(o) == phase = "in_call" /\ Program[pc].op = o

\* the call in flight returns and the kernel moves on to call n
Return(n) ==
  /\ returned' = Bump(returned, <<pc, iter>>)
  /\ pc' = n[1]
  /\ iter' = n[2]
  /\ phase' = IF n[1] >= runEnd THEN "done" ELSE "idle"

Init ==
  /\ pc = 1
  /\ iter = 1
  /\ phase = "idle"
  /\ runEnd = NumSites + 1
  /\ reruns = 0
  /\ issued = <<>>
  /\ returned = <<>>
  /\ class_list = <<>>
  /\ batch_size_printed = 0
  /\ train_ds = Undefined
  /\ val_ds = Undefined
  /\ model = Undefined
  /\ x_slice = NoSlice
  /\ x_index = NoSlice
  /\ y_index = NoSlice
  /\ x_train = NoSlice
  /\ calibration = <<>>
  /\ x_display = NoSlice
  /\ y_display = NoSlice
  /\ nns = <<>>
  /\ order = <<>>
  /\ vizzed = <<>>
  /\ x_confusion = NoSlice
  /\ y_confusion = NoSlice
  /\ matches = <<>>
  /\ idx_no_match = {}
  /\ shown = -1
  /\ vx = NoSlice
  /\ fitSteps = [train |-> 0, val |-> 0]
  /\ batch = <<>>
  /\ valBatch = <<>>

\* a call that leaves the namespace as it is: layers, loss, optimizer, plots
ReturnPlain ==
  /\ phase = "in_call" /\ Program[pc].op \in PlainOps
  /\ Return(Successor(pc, iter))
  /\ UNCHANGED <<runEnd, reruns, issued, class_list, batch_size_printed,
                 train_ds, val_ds, model, x_slice, x_index, y_index,
                 x_train, calibration, x_display, y_display, nns, order,
                 vizzed, x_confusion, y_confusion, matches, idx_no_match,
                 shown, vx, fitSteps, batch, valBatch>>

\* class_list = random.sample(population=range(10), k=num_known_classes),
\* then the batch size is printed
RandomSample ==
  /\ At("random_sample")
  /\ \E seed \in 0..MaxSampleSeed :
       /\ class_list' = Sample(AllClasses, num_known_classes, seed)
       /\ batch_size_printed' = Min(classes_per_batch, num_known_classes) * examples_per_class_per_batch
  /\ Return(Successor(pc, iter))
  /\ UNCHANGED <<runEnd, reruns, issued, train_ds, val_ds, model, x_slice,
                 x_index, y_index, x_train, calibration, x_display,
                 y_display, nns, order, vizzed, x_confusion, y_confusion,
                 matches, idx_no_match, shown, vx, fitSteps, batch,
                 valBatch>>

\* CreateTrainDs without the examples_per_class_per_batch argument
CreateTrainDsDefaultExamples ==
  /\ At("train_sampler")
  /\ \E seed \in 0..MaxShuffleSeed :
       /\ train_ds' = Sampler("train", Min(classes_per_batch, num_known_classes),
                             0, class_list, 0, seed)
  /\ Return(Successor(pc, iter))
  /\ UNCHANGED <<runEnd, reruns, issued, class_list, batch_size_printed,
                 val_ds, model, x_slice, x_index, y_index, x_train,
                 calibration, x_display, y_display, nns, order, vizzed,
                 x_confusion, y_confusion, matches, idx_no_match, shown,
                 vx, fitSteps, batch, valBatch>>

\* train_ds = TFDatasetMultiShotMemorySampler("cifar10", splits="train", ...)
CreateTrainDs ==
  /\ At("train_sampler")
  /\ \E seed \in 0..MaxShuffleSeed :
       /\ train_ds' = Sampler("train", Min(classes_per_batch, num_known_classes),
                             examples_per_class_per_batch, class_list, 0, seed)
  /\ Return(Successor(pc, iter))
  /\ UNCHANGED <<runEnd, reruns, issued, class_list, batch_size_printed,
                 val_ds, model, x_slice, x_index, y_index, x_train,
                 calibration, x_display, y_display, nns, order, vizzed,
                 x_confusion, y_confusion, matches, idx_no_match, shown,
                 vx, fitSteps, batch, valBatch>>

\* CreateValDs given examples_per_class_per_batch as the training sampler is
CreateValDsLikeTrain ==
  /\ At("val_sampler")
  /\ \E seed \in 0..MaxShuffleSeed :
       /\ val_ds' = Sampler("test", classes_per_batch, examples_per_class_per_batch,
                           <<>>, total_examples_per_class, seed)
  /\ Return(Successor(pc, iter))
  /\ UNCHANGED <<runEnd, reruns, issued, class_list, batch_size_printed,
                 train_ds, model, x_slice, x_index, y_index, x_train,
                 calibration, x_display, y_display, nns, order, vizzed,
                 x_confusion, y_confusion, matches, idx_no_match, shown,
                 vx, fitSteps, batch, valBatch>>

\* val_ds = TFDatasetMultiShotMemorySampler("cifar10", splits="test", ...)
CreateValDs ==
  /\ At("val_sampler")
  /\ \E seed \in 0..MaxShuffleSeed :
       /\ val_ds' = Sampler("test", classes_per_batch, 0, <<>>,
                           total_examples_per_class, seed)
  /\ Return(Successor(pc, iter))
  /\ UNCHANGED <<runEnd, reruns, issued, class_list, batch_size_printed,
                 train_ds, model, x_slice, x_index, y_index, x_train,
                 calibration, x_display, y_display, nns, order, vizzed,
                 x_confusion, y_confusion, matches, idx_no_match, shown,
                 vx, fitSteps, batch, valBatch>>

\* x_slice, y_slice = train_ds.get_slice(begin=0, size=num_cols * num_rows)
GetSlicePreview ==
  /\ At("get_slice") /\ Program[pc].cell = 3
  /\ train_ds.defined
  /\ x_slice' = GetSlice(train_ds, "x", 0, PreviewSize)
  /\ Return(Successor(pc, iter))
  /\ UNCHANGED <<runEnd, reruns, issued, class_list, batch_size_printed,
                 train_ds, val_ds, model, x_index, y_index, x_train,
                 calibration, x_display, y_display, nns, order, vizzed,
                 x_confusion, y_confusion, matches, idx_no_match, shown,
                 vx, fitSteps, batch, valBatch>>

\* model = tfsim.models.SimilarityModel(inputs, outputs), freshly initialised
BuildModel ==
  /\ At("similarity_model")
  /\ \E w \in 1..MaxWeights :
       /\ model' = NewModel(w)
  /\ Return(Successor(pc, iter))
  /\ UNCHANGED <<runEnd, reruns, issued, class_list, batch_size_printed,
                 train_ds, val_ds, x_slice, x_index, y_index, x_train,
                 calibration, x_display, y_display, nns, order, vizzed,
                 x_confusion, y_confusion, matches, idx_no_match, shown,
                 vx, fitSteps, batch, valBatch>>

\* model.compile(optimizer=Adam(learning_rate), loss=loss, ...)
Compile ==
  /\ At("compile")
  /\ model.defined
  /\ model' = [model EXCEPT !.compiled = TRUE]
  /\ Return(Successor(pc, iter))
  /\ UNCHANGED <<runEnd, reruns, issued, class_list, batch_size_printed,
                 train_ds, val_ds, x_slice, x_index, y_index, x_train,
                 calibration, x_display, y_display, nns, order, vizzed,
                 x_confusion, y_confusion, matches, idx_no_match, shown,
                 vx, fitSteps, batch, valBatch>>

\* model.fit returns once its steps are done: the weights are the trained ones
FitReturn ==
  /\ At("fit")
  /\ fitSteps.train = MaxFitSteps /\ fitSteps.val = MaxFitSteps
  /\ \E w \in 1..MaxWeights :
       /\ model' = [model EXCEPT !.trained = TRUE, !.weights = w]
       /\ fitSteps' = [train |-> 0, val |-> 0]
       /\ batch' = <<>>
       /\ valBatch' = <<>>
  /\ Return(Successor(pc, iter))
  /\ UNCHANGED <<runEnd, reruns, issued, class_list, batch_size_printed,
                 train_ds, val_ds, x_slice, x_index, y_index, x_train,
                 calibration, x_display, y_display, nns, order, vizzed,
                 x_confusion, y_confusion, matches, idx_no_match, shown,
                 vx>>

\* x_index, y_index = val_ds.get_slice(begin=0, size=200)
GetSliceIndex ==
  /\ At("get_slice") /\ Program[pc].cell = 6
  /\ val_ds.defined
  /\ x_index' = GetSlice(val_ds, "x", 0, IndexSize)
  /\ y_index' = GetSlice(val_ds, "y", 0, IndexSize)
  /\ Return(Successor(pc, iter))
  /\ UNCHANGED <<runEnd, reruns, issued, class_list, batch_size_printed,
                 train_ds, val_ds, model, x_slice, x_train, calibration,
                 x_display, y_display, nns, order, vizzed, x_confusion,
                 y_confusion, matches, idx_no_match, shown, vx, fitSteps,
                 batch, valBatch>>

\* ResetIndex with the index left as it is
ResetIndexOmitted ==
  /\ At("reset_index")
  /\ model.defined
  /\ Return(Successor(pc, iter))
  /\ UNCHANGED <<runEnd, reruns, issued, class_list, batch_size_printed,
                 train_ds, val_ds, model, x_slice, x_index, y_index,
                 x_train, calibration, x_display, y_display, nns, order,
                 vizzed, x_confusion, y_confusion, matches, idx_no_match,
                 shown, vx, fitSteps, batch, valBatch>>

\* model.reset_index()
ResetIndex ==
  /\ At("reset_index")
  /\ model.defined
  /\ model' = ResetIndexOf(model)
  /\ Return(Successor(pc, iter))
  /\ UNCHANGED <<runEnd, reruns, issued, class_list, batch_size_printed,
                 train_ds, val_ds, x_slice, x_index, y_index, x_train,
                 calibration, x_display, y_display, nns, order, vizzed,
                 x_confusion, y_confusion, matches, idx_no_match, shown,
                 vx, fitSteps, batch, valBatch>>

\* model.index(x_index, y_index, data=x_index)
Index ==
  /\ At("index")
  /\ model.defined
  /\ model' = IndexInto(model, Array(x_index), Array(y_index), Array(x_index))
  /\ Return(Successor(pc, iter))
  /\ UNCHANGED <<runEnd, reruns, issued, class_list, batch_size_printed,
                 train_ds, val_ds, x_slice, x_index, y_index, x_train,
                 calibration, x_display, y_display, nns, order, vizzed,
                 x_confusion, y_confusion, matches, idx_no_match, shown,
                 vx, fitSteps, batch, valBatch>>

\* x_train, y_train = train_ds.get_slice(begin=0, size=1000)
GetSliceCalibration ==
  /\ At("get_slice") /\ Program[pc].cell = 7
  /\ train_ds.defined
  /\ x_train' = GetSlice(train_ds, "x", 0, CalibrationSize)
  /\ Return(Successor(pc, iter))
  /\ UNCHANGED <<runEnd, reruns, issued, class_list, batch_size_printed,
                 train_ds, val_ds, model, x_slice, x_index, y_index,
                 calibration, x_display, y_display, nns, order, vizzed,
                 x_confusion, y_confusion, matches, idx_no_match, shown,
                 vx, fitSteps, batch, valBatch>>

\* calibration = model.calibrate(x_train, y_train, calibration_metric="f1",
\* matcher="match_nearest", ...): the library's search settles on a threshold
\* and the model keeps it as the cutpoint "optimal"
Calibrate ==
  /\ At("calibrate")
  /\ model.defined /\ Len(model.index) > 0
  /\ \E thr \in 0..MaxThreshold :
       /\ model' = [model EXCEPT !.cutpoints = ("optimal" :> (thr * ThresholdStep))]
       /\ calibration' = [cutpoints |-> ("optimal" :> (thr * ThresholdStep))]
  /\ Return(Successor(pc, iter))
  /\ UNCHANGED <<runEnd, reruns, issued, class_list, batch_size_printed,
                 train_ds, val_ds, x_slice, x_index, y_index, x_train,
                 x_display, y_display, nns, order, vizzed, x_confusion,
                 y_confusion, matches, idx_no_match, shown, vx, fitSteps,
                 batch, valBatch>>

\* x_display, y_display = val_ds.get_slice(begin=200, size=10)
GetSliceDisplay ==
  /\ At("get_slice") /\ Program[pc].cell = 8
  /\ val_ds.defined
  /\ x_display' = GetSlice(val_ds, "x", DisplayBegin, DisplaySize)
  /\ y_display' = GetSlice(val_ds, "y", DisplayBegin, DisplaySize)
  /\ Return(Successor(pc, iter))
  /\ UNCHANGED <<runEnd, reruns, issued, class_list, batch_size_printed,
                 train_ds, val_ds, model, x_slice, x_index, y_index,
                 x_train, calibration, nns, order, vizzed, x_confusion,
                 y_confusion, matches, idx_no_match, shown, vx, fitSteps,
                 batch, valBatch>>

\* nns = model.lookup(x_display, k=num_neighbors)
LookupNeighbors ==
  /\ At("lookup")
  /\ model.defined
  /\ nns' = Lookup(model, Array(x_display), num_neighbors)
  /\ Return(Successor(pc, iter))
  /\ UNCHANGED <<runEnd, reruns, issued, class_list, batch_size_printed,
                 train_ds, val_ds, model, x_slice, x_index, y_index,
                 x_train, calibration, x_display, y_display, order, vizzed,
                 x_confusion, y_confusion, matches, idx_no_match, shown,
                 vx, fitSteps, batch, valBatch>>

\* for idx in np.argsort(y_display): the loop that follows runs once per
\* position, and not at all when there is none
ArgsortDisplay ==
  /\ At("argsort")
  /\ order' = Argsort(Array(y_display), {})
  /\ vizzed' = <<>>
  /\ Return(IF y_display.len = 0 THEN <<pc + 2, 1>> ELSE <<pc + 1, 1>>)
  /\ UNCHANGED <<runEnd, reruns, issued, class_list, batch_size_printed,
                 train_ds, val_ds, model, x_slice, x_index, y_index,
                 x_train, calibration, x_display, y_display, nns,
                 x_confusion, y_confusion, matches, idx_no_match, shown,
                 vx, fitSteps, batch, valBatch>>

\* tfsim.visualization.viz_neigbors_imgs(x_display[idx], y_display[idx], nns[idx], ...)
VizNeighbors ==
  /\ At("viz_neigbors_imgs")
  /\ Len(nns) >= order[iter]
  /\ vizzed' = Append(vizzed, order[iter])
  /\ Return(Successor(pc, iter))
  /\ UNCHANGED <<runEnd, reruns, issued, class_list, batch_size_printed,
                 train_ds, val_ds, model, x_slice, x_index, y_index,
                 x_train, calibration, x_display, y_display, nns, order,
                 x_confusion, y_confusion, matches, idx_no_match, shown,
                 vx, fitSteps, batch, valBatch>>

\* x_confusion, y_confusion = val_ds.get_slice(0, -1)
GetSliceConfusion ==
  /\ At("get_slice") /\ Program[pc].cell = 10
  /\ val_ds.defined
  /\ x_confusion' = GetSlice(val_ds, "x", 0, -1)
  /\ y_confusion' = GetSlice(val_ds, "y", 0, -1)
  /\ Return(Successor(pc, iter))
  /\ UNCHANGED <<runEnd, reruns, issued, class_list, batch_size_printed,
                 train_ds, val_ds, model, x_slice, x_index, y_index,
                 x_train, calibration, x_display, y_display, nns, order,
                 vizzed, matches, idx_no_match, shown, vx, fitSteps, batch,
                 valBatch>>

\* matches = model.match(x_confusion, cutpoint=cutpoint, no_match_label=10)
MatchQueries ==
  /\ At("match")
  /\ model.defined /\ "optimal" \in DOMAIN model.cutpoints
  /\ matches' = Match(model, Array(x_confusion), "optimal", NoMatchLabel)
  /\ Return(Successor(pc, iter))
  /\ UNCHANGED <<runEnd, reruns, issued, class_list, batch_size_printed,
                 train_ds, val_ds, model, x_slice, x_index, y_index,
                 x_train, calibration, x_display, y_display, nns, order,
                 vizzed, x_confusion, y_confusion, idx_no_match, shown, vx,
                 fitSteps, batch, valBatch>>

\* idx_no_match = np.where(np.array(matches) == 10); the branch on
\* len(no_match_queries) chooses between plt.imshow and a printed line
WhereNoMatch ==
  /\ At("where")
  /\ idx_no_match' = Where(matches, 10)
  /\ Return(IF Where(matches, 10) # {} THEN <<pc + 1, 1>> ELSE <<pc + 2, 1>>)
  /\ UNCHANGED <<runEnd, reruns, issued, class_list, batch_size_printed,
                 train_ds, val_ds, model, x_slice, x_index, y_index,
                 x_train, calibration, x_display, y_display, nns, order,
                 vizzed, x_confusion, y_confusion, matches, shown, vx,
                 fitSteps, batch, valBatch>>

\* vx, vy = val_ds.get_slice(0, num_examples_to_clusters)
GetSliceClusters ==
  /\ At("get_slice") /\ Program[pc].cell = 12
  /\ val_ds.defined
  /\ vx' = GetSlice(val_ds, "x", 0, num_examples_to_clusters)
  /\ Return(Successor(pc, iter))
  /\ UNCHANGED <<runEnd, reruns, issued, class_list, batch_size_printed,
                 train_ds, val_ds, model, x_slice, x_index, y_index,
                 x_train, calibration, x_display, y_display, nns, order,
                 vizzed, x_confusion, y_confusion, matches, idx_no_match,
                 shown, fitSteps, batch, valBatch>>

\* plt.imshow(no_match_queries[0])
ShowNoMatch ==
  /\ At("no_match_imshow")
  /\ shown' = Elem(x_confusion, First(idx_no_match))
  /\ Return(Successor(pc, iter))
  /\ UNCHANGED <<runEnd, reruns, issued, class_list, batch_size_printed,
                 train_ds, val_ds, model, x_slice, x_index, y_index,
                 x_train, calibration, x_display, y_display, nns, order,
                 vizzed, x_confusion, y_confusion, matches, idx_no_match,
                 vx, fitSteps, batch, valBatch>>

\* one training step inside model.fit: the next batch of train_ds
FitTrainStep ==
  /\ At("fit")
  /\ model.defined /\ model.compiled /\ train_ds.defined
  /\ fitSteps.train < MaxFitSteps
  /\ \E seed \in 0..MaxBatchSeed : batch' = GenerateBatch(train_ds, seed)
  /\ fitSteps' = [fitSteps EXCEPT !.train = @ + 1]
  /\ UNCHANGED <<pc, iter, phase, runEnd, reruns, issued, returned,
                 class_list, batch_size_printed, train_ds, val_ds, model,
                 x_slice, x_index, y_index, x_train, calibration,
                 x_display, y_display, nns, order, vizzed, x_confusion,
                 y_confusion, matches, idx_no_match, shown, vx, valBatch>>

\* one validation step inside model.fit: the next batch of val_ds
FitValStep ==
  /\ At("fit")
  /\ val_ds.defined
  /\ fitSteps.train = MaxFitSteps /\ fitSteps.val < MaxFitSteps
  /\ \E seed \in 0..MaxBatchSeed : valBatch' = GenerateBatch(val_ds, seed)
  /\ fitSteps' = [fitSteps EXCEPT !.val = @ + 1]
  /\ UNCHANGED <<pc, iter, phase, runEnd, reruns, issued, returned,
                 class_list, batch_size_printed, train_ds, val_ds, model,
                 x_slice, x_index, y_index, x_train, calibration,
                 x_display, y_display, nns, order, vizzed, x_confusion,
                 y_confusion, matches, idx_no_match, shown, vx, batch>>

\* the kernel issues the library call at pc and waits for it
Issue ==
  /\ phase = "idle"
  /\ pc < runEnd
  /\ issued' = Bump(issued, <<pc, iter>>)
  /\ phase' = "in_call"
  /\ UNCHANGED <<pc, iter, runEnd, reruns, returned, class_list,
                 batch_size_printed, train_ds, val_ds, model, x_slice,
                 x_index, y_index, x_train, calibration, x_display,
                 y_display, nns, order, vizzed, x_confusion, y_confusion,
                 matches, idx_no_match, shown, vx, fitSteps, batch,
                 valBatch>>

\* Raise with the failed call caught and issued again
RaiseRetried ==
  /\ phase = "in_call"
  /\ phase' = "idle"
  /\ UNCHANGED <<pc, iter, runEnd, reruns, issued, returned, class_list,
                 batch_size_printed, train_ds, val_ds, model, x_slice,
                 x_index, y_index, x_train, calibration, x_display,
                 y_display, nns, order, vizzed, x_confusion, y_confusion,
                 matches, idx_no_match, shown, vx, fitSteps, batch,
                 valBatch>>

\* the call in flight raises: nothing in the notebook catches it, so the
\* execution stops here
Raise ==
  /\ phase = "in_call"
  /\ phase' = "raised"
  /\ UNCHANGED <<pc, iter, runEnd, reruns, issued, returned, class_list,
                 batch_size_printed, train_ds, val_ds, model, x_slice,
                 x_index, y_index, x_train, calibration, x_display,
                 y_display, nns, order, vizzed, x_confusion, y_confusion,
                 matches, idx_no_match, shown, vx, fitSteps, batch,
                 valBatch>>

\* interactive session: once the run has ended, or has stopped in the
\* indexing cell, the indexing cell is executed again, on its own
RerunIndexCell ==
  /\ \/ phase = "done"
     \/ phase = "raised" /\ Program[pc].cell = IndexCell
  /\ reruns < MaxReruns
  /\ pc' = FirstSite(IndexCell)
  /\ iter' = 1
  /\ phase' = "idle"
  /\ runEnd' = LastSite(IndexCell) + 1
  /\ reruns' = reruns + 1
  /\ UNCHANGED <<issued, returned, class_list, batch_size_printed,
                 train_ds, val_ds, model, x_slice, x_index, y_index,
                 x_train, calibration, x_display, y_display, nns, order,
                 vizzed, x_confusion, y_confusion, matches, idx_no_match,
                 shown, vx, fitSteps, batch, valBatch>>

\* a top-to-bottom run of the notebook
Next ==
  \/ Issue
  \/ Raise
  \/ ReturnPlain
  \/ RandomSample
  \/ CreateTrainDs
  \/ CreateValDs
  \/ GetSlicePreview
  \/ BuildModel
  \/ Compile
  \/ FitTrainStep
  \/ FitValStep
  \/ FitReturn
  \/ GetSliceIndex
  \/ ResetIndex
  \/ Index
  \/ GetSliceCalibration
  \/ Calibrate
  \/ GetSliceDisplay
  \/ LookupNeighbors
  \/ ArgsortDisplay
  \/ VizNeighbors
  \/ GetSliceConfusion
  \/ MatchQueries
  \/ WhereNoMatch
  \/ ShowNoMatch
  \/ GetSliceClusters

Spec == Init /\ [][Next]_vars

\* an interactive session: a run, then re-executions of the indexing cell
NextInteractive == Next \/ RerunIndexCell

SpecInteractive == Init /\ [][NextInteractive]_vars

----------------------------------------------------------------------------
(* Properties.                                                             *)

\* the stage a code cell belongs to: 0 setup, 1 data loading (the samplers
\* and the preview of their images), 2 model definition, 3 training,
\* 4 indexing, 5 calibration, 6 visualization
StageOfCell(c) ==
  CASE c = 1 -> 0
    [] c \in {2, 3} -> 1
    [] c = 4 -> 2
    [] c = 5 -> 3
    [] c = 6 -> 4
    [] c = 7 -> 5
    [] OTHER -> 6

StageOf == [s \in Sites |-> StageOfCell(Program[s].cell)]

CallsOf(s) == {<<s, i>> : i \in 1..LoopCount(s)}

SiteReturned(s) == \A id \in CallsOf(s) : Count(returned, id) = 1

SiteIssued(s) == \E i \in 1..LoopCount(s) : Count(issued, <<s, i>>) > 0

\* the stages of which a call has been issued
StagesStarted == {StageOf[id[1]] : id \in DOMAIN issued}

StageFinished(st) == \A s \in Sites : StageOf[s] = st => SiteReturned(s)

\* calls issued and neither returned nor, so far, raised
InFlight == {id \in DOMAIN issued : Count(returned, id) < issued[id]}

\* C1: in a top-to-bottom run the stages run once each, in the order data
\* loading, model definition, training, indexing, calibration,
\* visualization; no stage starts before the one before it has finished; at
\* most one call is in flight; model.index is not called before model.fit
\* has returned, model.calibrate not before model.index has returned,
\* model.lookup and model.match not before model.calibrate has returned.
C1_StagesInOrder ==
  /\ LET latest == CHOOSE st \in StagesStarted \cup {0} :
                     \A other \in StagesStarted : other <= st
     IN  \A s \in Sites : StageOf[s] < latest => SiteReturned(s)
  /\ \A id \in DOMAIN issued : issued[id] = 1
  /\ \A id \in DOMAIN returned : returned[id] = 1
  /\ Cardinality(InFlight) <= 1
  /\ SiteIssued(SiteOf("index")) => SiteReturned(SiteOf("fit"))
  /\ SiteIssued(SiteOf("calibrate")) => SiteReturned(SiteOf("index"))
  /\ SiteIssued(SiteOf("lookup")) => SiteReturned(SiteOf("calibrate"))
  /\ SiteIssued(SiteOf("match")) => SiteReturned(SiteOf("calibrate"))
  /\ phase = "done" =>
       /\ \A st \in 0..5 : StageFinished(st)
       /\ \A s \in Sites :
            Program[s].op # "no_match_imshow" => SiteIssued(s) /\ SiteReturned(s)

\* a complete run: every stage has been through, up to the last cell
C1_Witness ==
  /\ phase = "done"
  /\ SiteReturned(SiteOf("fit"))
  /\ SiteReturned(SiteOf("match"))
  /\ Count(returned, <<NumSites, 1>>) = 1

LabelsOf(b) == {b[j][1] : j \in 1..Len(b)}

ExamplesOf(b, c) == Cardinality({j \in 1..Len(b) : b[j][1] = c})

\* C2: every batch of train_ds holds exactly 10 different classes with
\* exactly 8 examples of each, 80 examples in all, which is the batch size
\* the notebook prints, and every label of the batch is in class_list.
C2_TrainBatches ==
  batch # <<>> =>
    /\ Cardinality(LabelsOf(batch)) = 10
    /\ \A c \in LabelsOf(batch) : ExamplesOf(batch, c) = 8
    /\ Len(batch) = 80
    /\ Len(batch) = batch_size_printed
    /\ LabelsOf(batch) \subseteq Range(class_list)

\* model.fit has drawn its training batches
C2_Witness ==
  /\ batch # <<>>
  /\ phase = "in_call"
  /\ fitSteps.train = MaxFitSteps

\* val_ds has just been created
ValDsCreated ==
  /\ phase = "idle"
  /\ pc = SiteOf("val_sampler") + 1

\* C3: val_ds is a sampler of the same kind as train_ds that holds at most
\* 100 examples of each class and whose batches hold 2 examples (the
\* default) of each of 10 classes.
C3_ValidationSampler ==
  /\ val_ds.defined =>
       /\ val_ds.classes_per_batch = 10
       /\ val_ds.examples_per_class_per_batch = 2
       /\ val_ds.per_class <= 100
       /\ DsSize(val_ds) <= 10 * 100
  /\ ValDsCreated =>
       \A c \in 0..9 :
         Cardinality({i \in 0..(DsSize(val_ds) - 1) : LabelAt(val_ds, i) = c})
           <= 100
  /\ valBatch # <<>> =>
       /\ Cardinality(LabelsOf(valBatch)) = 10
       /\ \A c \in LabelsOf(valBatch) : ExamplesOf(valBatch, c) = 2

\* model.fit has drawn a validation batch
C3_Witness ==
  /\ valBatch # <<>>
  /\ val_ds.defined
  /\ train_ds.defined

\* the indexing cell has been executed to its end and is not being
\* executed again
IndexCellHasRun ==
  /\ Count(returned, <<SiteOf("index"), 1>>) > 0
  /\ \/ phase = "done"
     \/ pc > LastSite(IndexCell)

\* the indexing cell has just been executed to its end
IndexCellJustRun ==
  /\ IndexCellHasRun
  /\ pc = LastSite(IndexCell) + 1
  /\ phase \in {"idle", "done"}

\* C4: after the indexing cell has run, however many times, the index
\* holds exactly the first 200 validation examples, in order, each with its
\* label and with its image as data, and nothing else.
C4_IndexIsFirst200 ==
  /\ IndexCellHasRun => Len(model.index) = 200
  /\ IndexCellJustRun =>
       \A i \in 1..Len(model.index) :
         /\ i <= 200
         /\ model.index[i].label = LabelAt(val_ds, i - 1)
         /\ model.index[i].data = ImageAt(val_ds, i - 1)
         /\ model.index[i].emb = Embed(model.weights, ImageAt(val_ds, i - 1))

\* the indexing cell has been executed a second time
C4_Witness ==
  /\ IndexCellJustRun
  /\ reruns >= 1
  /\ phase = "done"
  /\ Count(issued, <<SiteOf("reset_index"), 1>>) >= 2

\* model.match has just returned
MatchReturned ==
  /\ phase = "idle"
  /\ pc \in Sites
  /\ Program[pc].op = "confusion_matrix"

LoopOf ==
  [s \in Sites |->
     IF InLoopBody(s)
     THEN CHOOSE u \in Sites :
            Program[u].body # 0 /\ BodyStart(u) <= s /\ s <= u
     ELSE 0]

SameLoop(s, t) == LoopOf[s] # 0 /\ LoopOf[s] = LoopOf[t]

\* <<site, iteration>> a comes before b in the run
Before(a, b) ==
  IF SameLoop(a[1], b[1])
  THEN a[2] < b[2] \/ (a[2] = b[2] /\ a[1] < b[1])
  ELSE a[1] < b[1]

====
